---- MODULE Spec2Model ----
(***************************************************************************)
(* Model of the album search aggregation of music-search                   *)
(* (src/src/lib/musicSearch.ts) and of its POST handler /api/search.       *)
(*                                                                         *)
(* Six specifications share the module:                                    *)
(*   Spec         one run of searchAllPlatforms: the credential steps, the *)
(*                three adapters with their search and detail requests,    *)
(*                and the Promise.all that joins them;                     *)
(*   SpecMap      the three detail functions (getSpotifyAlbumDetails,      *)
(*                getAppleMusicAlbumDetails, getDeezerAlbumDetails)        *)
(*                applied to one upstream response drawn from bounded      *)
(*                sets;                                                    *)
(*   SpecRequest  the POST handler on every form of the bounded names,     *)
(*                followed up to the issue of the three searches;          *)
(*   SpecPost     the POST handler around a whole run of                   *)
(*                searchAllPlatforms, up to its response;                  *)
(*   SpecAdapter  one call of one adapter, with the order in which its     *)
(*                detail calls resolve;                                    *)
(*   SpecPage     the browser page (src/unnamed/part_001): submissions of  *)
(*                the search form and the arrival of their responses.      *)
(*                                                                         *)
(* JavaScript strings that the code takes apart (release dates, the        *)
(* artwork URL template) are sequences of one-character strings; values    *)
(* the code only passes on are TLA+ strings.  null/undefined is None.      *)
(***************************************************************************)
EXTENDS Integers, Sequences, FiniteSets

VARIABLES pc, spotifyAccessToken, appleMusicToken, cred, reqs, ad, outcome,
          mIn, mOut, form, args, query, hpc, response, log,
          loadingText, resultsDiv, submits

vars == <<pc, spotifyAccessToken, appleMusicToken, cred, reqs, ad, outcome,
          mIn, mOut, form, args, query, hpc, response, log,
          loadingText, resultsDiv, submits>>

aggVars == <<pc, spotifyAccessToken, appleMusicToken, cred, reqs, ad, outcome>>

mapVars == <<mIn, mOut>>

\* the request boundary: the form of the POST request, the arguments it
\* passes on, the handler's position and its response
postVars == <<form, args, hpc, response>>

\* the query strings of the three adapters, and the order in which the
\* detail calls of one adapter resolved
edgeVars == <<form, args, query, hpc, response, log,
              loadingText, resultsDiv, submits>>

\* the browser page: the loading indicator, the results area and the
\* submissions of the search form
pageVars == <<loadingText, resultsDiv, submits>>

\* the page as it is loaded: indicator hidden, no result, nothing submitted
PageIdle ==
  /\ loadingText = "none"
  /\ resultsDiv = <<>>
  /\ submits = <<>>

(***************************************************************************)
(* Bounds of the model.                                                    *)
(***************************************************************************)
\* most hits one upstream search answers with (the code asks for 5, the
\* upstream decides)
MaxHits == 6

\* most hits the three upstream searches of one run answer with in total
MaxTotalHits == 7

\* longest native track list of an album payload
MaxTracks == 3

\* longest release date string
MaxDateLen == 4

\* longest artwork URL template
MaxUrlLen == 6

(***************************************************************************)
(* Values.                                                                 *)
(***************************************************************************)
None == "none"

Platforms == {"spotify", "appleMusic", "deezer"}

\* upstream HTTP statuses the model draws
Statuses == {200, 404, 503}

\* the statuses the upstreams answer with within one run of searchAllPlatforms
RunStatuses == {200, 503}

\* response.ok of the fetch API: a status in 200..299
ResponseOk(status) == status >= 200 /\ status <= 299

\* response.statusText
StatusText(status) ==
  CASE status = 200 -> "OK"
    [] status = 404 -> "Not Found"
    [] status = 503 -> "Service Unavailable"
    [] OTHER -> ""

\* JavaScript truthiness of a string-or-null value
Truthy(v) == v # None /\ v # ""

Min(S) == CHOOSE x \in S : \A y \in S : x <= y

SeqsUpTo(S, n) == UNION {[1..k -> S] : k \in 0..n}

\* a thrown value: the constructor, the message up to its variable part,
\* and the variable part (the upstream statusText) when there is one
Thrown(name, msg, text) == [name |-> name, msg |-> msg, text |-> text]

Failure(err) == [ok |-> FALSE, err |-> err]

Success(value) == [ok |-> TRUE, value |-> value]

(***************************************************************************)
(* String functions of the detail mappers.                                 *)
(***************************************************************************)
\* "Unknown"
Unknown == <<"U", "n", "k", "n", "o", "w", "n">>

\* s.split("-")[0]
SplitDashFirst(s) ==
  LET dashes == {i \in 1..Len(s) : s[i] = "-"}
  IN  IF dashes = {} THEN s ELSE SubSeq(s, 1, Min(dashes) - 1)

\* s.replace(pat, rep) with a string pattern: the first occurrence only
ReplaceFirst(s, pat, rep) ==
  LET n == Len(pat)
      at == {i \in 1..(Len(s) - n + 1) : SubSeq(s, i, i + n - 1) = pat}
  IN  IF at = {} THEN s
      ELSE LET i == Min(at)
           IN  SubSeq(s, 1, i - 1) \o rep \o SubSeq(s, i + n, Len(s))

PlaceholderW == <<"{", "w", "}">>

PlaceholderH == <<"{", "h", "}">>

Size300 == <<"3", "0", "0">>

\* artwork.url.replace("{w}", "300").replace("{h}", "300")
AppleCoverUrl(url) ==
  ReplaceFirst(ReplaceFirst(url, PlaceholderW, Size300), PlaceholderH, Size300)

(***************************************************************************)
(* Upstream payloads.  An album payload carries, under one set of field    *)
(* names, what the three detail functions read:                            *)
(*   name          album.name / attributes.name / album.title              *)
(*   hasDate,                                                              *)
(*   release_date  album.release_date / attributes.releaseDate             *)
(*   hasTracks,                                                            *)
(*   tracks        album.tracks.items / relationships.tracks.data /        *)
(*                 album.tracks.data                                       *)
(*   cover         images[0].url / attributes.artwork.url / cover_medium   *)
(* The artist and link fields, which the functions copy, are left out.     *)
(***************************************************************************)
Album(name, year, coverUrl, previewUrl, tracklist) ==
  [name |-> name, year |-> year, coverUrl |-> coverUrl,
   previewUrl |-> previewUrl, tracklist |-> tracklist]

\* the loop "for (const track of ...) if (preview) { previewUrl = preview;
\* break }" over the previews of the tracks, from position i on
RECURSIVE FirstPreview(_, _)
FirstPreview(previews, i) ==
  IF i > Len(previews) THEN None
  ELSE IF Truthy(previews[i]) THEN previews[i]
  ELSE FirstPreview(previews, i + 1)

\* the same loop without its break: the last preview found wins
RECURSIVE LastPreview(_, _)
LastPreview(previews, i) ==
  IF i > Len(previews) THEN None
  ELSE LET rest == LastPreview(previews, i + 1)
       IN  IF rest # None THEN rest
           ELSE IF Truthy(previews[i]) THEN previews[i] ELSE None

(* Spotify *)
SpotifyTrack(track) ==
  [trackNumber |-> track.track_number, name |-> track.name,
   duration |-> track.duration_ms]

SpotifyPreviewUrl_noBreak(items) ==
  LastPreview([i \in 1..Len(items) |-> items[i].preview_url], 1)

SpotifyPreviewUrl(items) ==
  FirstPreview([i \in 1..Len(items) |-> items[i].preview_url], 1)

\* with Deezer's fallback for a missing release_date
getSpotifyAlbumDetails_unknownYear(status, album) ==
  IF ~ResponseOk(status)
  THEN Failure(Thrown("Error", "Spotify API returned an error: ", StatusText(status)))
  ELSE IF ~album.hasTracks
  THEN Failure(Thrown("TypeError", "Cannot read properties of undefined (reading 'items')", ""))
  ELSE Success(Album(album.name,
                     IF album.hasDate THEN SplitDashFirst(album.release_date) ELSE Unknown,
                     album.cover,
                     SpotifyPreviewUrl(album.tracks),
                     [i \in 1..Len(album.tracks) |-> SpotifyTrack(album.tracks[i])]))

getSpotifyAlbumDetails(status, album) ==
  IF ~ResponseOk(status)
  THEN Failure(Thrown("Error", "Spotify API returned an error: ", StatusText(status)))
  ELSE IF ~album.hasTracks
  THEN Failure(Thrown("TypeError", "Cannot read properties of undefined (reading 'items')", ""))
  ELSE IF ~album.hasDate
  THEN Failure(Thrown("TypeError", "Cannot read properties of undefined (reading 'split')", ""))
  ELSE Success(Album(album.name,
                     SplitDashFirst(album.release_date),
                     album.cover,
                     SpotifyPreviewUrl(album.tracks),
                     [i \in 1..Len(album.tracks) |-> SpotifyTrack(album.tracks[i])]))

(* Apple Music *)
AppleTrack(track) ==
  [trackNumber |-> track.trackNumber, name |-> track.name,
   duration |-> track.durationInMillis]

\* track.attributes?.previews?.[0]?.url
ApplePreviewOf(track) ==
  IF track.hasPreviews /\ Len(track.previews) >= 1 THEN track.previews[1] ELSE None

ApplePreviewUrl(data) ==
  FirstPreview([i \in 1..Len(data) |-> ApplePreviewOf(data[i])], 1)

getAppleMusicAlbumDetails(status, album) ==
  IF ~ResponseOk(status)
  THEN Failure(Thrown("Error", "Apple Music API request failed: ", StatusText(status)))
  ELSE IF ~album.hasDate
  THEN Failure(Thrown("TypeError", "Cannot read properties of undefined (reading 'split')", ""))
  ELSE Success(Album(album.name,
                     SplitDashFirst(album.release_date),
                     AppleCoverUrl(album.cover),
                     IF album.hasTracks THEN ApplePreviewUrl(album.tracks) ELSE None,
                     IF album.hasTracks
                     THEN [i \in 1..Len(album.tracks) |-> AppleTrack(album.tracks[i])]
                     ELSE <<>>))

(* Deezer *)
\* the map callback (track, index): index is the 0-based position
DeezerTrack_noScale(track, index) ==
  [trackNumber |-> index + 1, name |-> track.title, duration |-> track.duration]

DeezerTrack_zeroBased(track, index) ==
  [trackNumber |-> index, name |-> track.title, duration |-> track.duration * 1000]

DeezerTrack(track, index) ==
  [trackNumber |-> index + 1, name |-> track.title, duration |-> track.duration * 1000]

DeezerPreviewUrl(data) ==
  FirstPreview([i \in 1..Len(data) |-> data[i].preview], 1)

\* album.release_date ? album.release_date.split("-")[0] : "Unknown"
DeezerYear_noFallback(album) ==
  SplitDashFirst(album.release_date)

DeezerYear(album) ==
  IF album.hasDate /\ album.release_date # <<>>
  THEN SplitDashFirst(album.release_date)
  ELSE Unknown

getDeezerAlbumDetails(status, album) ==
  IF ~ResponseOk(status)
  THEN Failure(Thrown("Error", "Deezer API request failed: ", StatusText(status)))
  ELSE Success(Album(album.name,
                     DeezerYear(album),
                     album.cover,
                     IF album.hasTracks THEN DeezerPreviewUrl(album.tracks) ELSE None,
                     IF album.hasTracks
                     THEN [i \in 1..Len(album.tracks) |-> DeezerTrack(album.tracks[i], i - 1)]
                     ELSE <<>>))

getAlbumDetails(p, status, album) ==
  CASE p = "spotify" -> getSpotifyAlbumDetails(status, album)
    [] p = "appleMusic" -> getAppleMusicAlbumDetails(status, album)
    [] p = "deezer" -> getDeezerAlbumDetails(status, album)

(***************************************************************************)
(* The upstream responses the detail functions are applied to.             *)
(***************************************************************************)
TrackNames == {"A", "B"}

\* native numbers differ from list positions, native durations from each other
NativeNumber(n) == IF n = "A" THEN 2 ELSE 1

NativeMillis(n) == IF n = "A" THEN 180000 ELSE 1500

NativeSeconds(n) == IF n = "A" THEN 180 ELSE 1

PreviewValues == {None, "", "X", "Y"}

SpotifyTracks ==
  {[name |-> n, track_number |-> NativeNumber(n), duration_ms |-> NativeMillis(n),
    preview_url |-> pv] : n \in TrackNames, pv \in PreviewValues}

ApplePreviewLists ==
  {[has |-> FALSE, list |-> <<>>],
   [has |-> TRUE, list |-> <<>>],
   [has |-> TRUE, list |-> <<"">>],
   [has |-> TRUE, list |-> <<"X">>],
   [has |-> TRUE, list |-> <<"", "Y">>],
   [has |-> TRUE, list |-> <<"Y", "X">>]}

AppleTracks ==
  {[name |-> n, trackNumber |-> NativeNumber(n), durationInMillis |-> NativeMillis(n),
    hasPreviews |-> pl.has, previews |-> pl.list] : n \in TrackNames, pl \in ApplePreviewLists}

DeezerTracks ==
  {[title |-> n, duration |-> NativeSeconds(n), preview |-> pv] :
     n \in TrackNames, pv \in PreviewValues}

NativeTracks(p) ==
  CASE p = "spotify" -> SpotifyTracks
    [] p = "appleMusic" -> AppleTracks
    [] p = "deezer" -> DeezerTracks

DateChars == {"1", "9", "-"}

Dates == SeqsUpTo(DateChars, MaxDateLen)

UrlChars == {"{", "w", "h", "}"}

Urls == SeqsUpTo(UrlChars, MaxUrlLen)

SampleDate == <<"1", "9", "-", "1">>

SampleCover == <<"{", "w", "}", "{", "h", "}">>

Payload(name, hasDate, date, hasTracks, tracks, cover) ==
  [name |-> name, hasDate |-> hasDate, release_date |-> date,
   hasTracks |-> hasTracks, tracks |-> tracks, cover |-> cover]

SampleTracks(p) ==
  CASE p = "spotify" ->
         <<[name |-> "A", track_number |-> NativeNumber("A"),
            duration_ms |-> NativeMillis("A"), preview_url |-> "X"]>>
    [] p = "appleMusic" ->
         <<[name |-> "A", trackNumber |-> NativeNumber("A"),
            durationInMillis |-> NativeMillis("A"),
            hasPreviews |-> TRUE, previews |-> <<"X">>]>>
    [] p = "deezer" ->
         <<[title |-> "A", duration |-> NativeSeconds("A"), preview |-> "X"]>>

SamplePayload(p) ==
  Payload(1, TRUE, SampleDate, TRUE, SampleTracks(p), SampleCover)

\* one call of a detail function: the platform, the status of the upstream
\* response and its album payload
Call(p, status, album) == [platform |-> p, status |-> status, album |-> album]

\* the calls the detail functions are tried on: every track list with and
\* without a date, a payload without tracks, every date, every artwork URL,
\* and every status
MapInput(in) ==
  \E p \in Platforms :
    \/ \E hd \in BOOLEAN, ts \in SeqsUpTo(NativeTracks(p), MaxTracks) :
         in = Call(p, 200, Payload(1, hd, IF hd THEN SampleDate ELSE <<>>, TRUE, ts, SampleCover))
    \/ \E hd \in BOOLEAN :
         in = Call(p, 200, Payload(1, hd, IF hd THEN SampleDate ELSE <<>>, FALSE, <<>>, SampleCover))
    \/ \E d \in Dates :
         in = Call(p, 200, Payload(1, TRUE, d, TRUE, SampleTracks(p), SampleCover))
    \/ \E u \in Urls :
         in = Call(p, 200, Payload(1, TRUE, SampleDate, TRUE, SampleTracks(p), u))
    \/ \E st \in Statuses :
         in = Call(p, st, SamplePayload(p))

NotRun == [run |-> FALSE]

Ran(res) == [run |-> TRUE, res |-> res]

IdleInput ==
  [platform |-> None, status |-> 0,
   album |-> Payload(0, FALSE, <<>>, FALSE, <<>>, <<>>)]

CallGetSpotifyAlbumDetails ==
  /\ mIn.platform = "spotify"
  /\ ~mOut.run
  /\ mOut' = Ran(getSpotifyAlbumDetails(mIn.status, mIn.album))
  /\ UNCHANGED <<mIn, aggVars, edgeVars>>

CallGetAppleMusicAlbumDetails ==
  /\ mIn.platform = "appleMusic"
  /\ ~mOut.run
  /\ mOut' = Ran(getAppleMusicAlbumDetails(mIn.status, mIn.album))
  /\ UNCHANGED <<mIn, aggVars, edgeVars>>

CallGetDeezerAlbumDetails ==
  /\ mIn.platform = "deezer"
  /\ ~mOut.run
  /\ mOut' = Ran(getDeezerAlbumDetails(mIn.status, mIn.album))
  /\ UNCHANGED <<mIn, aggVars, edgeVars>>

(***************************************************************************)
(* The request boundary (the POST handler of /api/search) and the search   *)
(* query of the adapters.  Names are sequences of one-character strings.   *)
(***************************************************************************)
\* longest artist or album name of a request
MaxNameLen == 2

\* a letter, the white space, and two characters encodeURIComponent escapes
NameChars == {"a", " ", "&", "%"}

Names == SeqsUpTo(NameChars, MaxNameLen)

\* a form field or an optional argument: present with a text, or absent
\* (formData.get gives null, an argument is undefined)
Absent == [present |-> FALSE, text |-> <<>>]

Given(text) == [present |-> TRUE, text |-> text]

NoForm == [artistName |-> Absent, albumName |-> Absent]

\* String.prototype.trim: the white space at both ends is dropped
RECURSIVE TrimStart(_)
TrimStart(s) ==
  IF s # <<>> /\ Head(s) = " " THEN TrimStart(Tail(s)) ELSE s

RECURSIVE TrimEnd(_)
TrimEnd(s) ==
  IF s # <<>> /\ s[Len(s)] = " " THEN TrimEnd(SubSeq(s, 1, Len(s) - 1)) ELSE s

Trim(s) == TrimEnd(TrimStart(s))

\* the same without trim()
FormText_noTrim(field) == IF field.present THEN field.text ELSE <<>>

\* formData.get(name)?.toString().trim() || ''
FormText(field) == IF field.present THEN Trim(field.text) ELSE <<>>

\* encodeURIComponent of one character: the unreserved ones stay, the others
\* become % and the two hex digits of their code
PercentEncoded(c) ==
  CASE c = " " -> <<"%", "2", "0">>
    [] c = "&" -> <<"%", "2", "6">>
    [] c = "%" -> <<"%", "2", "5">>
    [] OTHER -> <<c>>

RECURSIVE encodeURIComponent(_)
encodeURIComponent(s) ==
  IF s = <<>> THEN <<>>
  ELSE PercentEncoded(Head(s)) \o encodeURIComponent(Tail(s))

\* albumName ? `${encodeURIComponent(artistName)} ${encodeURIComponent(albumName)}`
\*           : encodeURIComponent(artistName)
SpotifyQuery_noEncoding(artistName, albumName) ==
  IF albumName.present /\ albumName.text # <<>>
  THEN artistName \o <<" ">> \o albumName.text
  ELSE artistName

SpotifyQuery(artistName, albumName) ==
  IF albumName.present /\ albumName.text # <<>>
  THEN encodeURIComponent(artistName) \o <<" ">> \o encodeURIComponent(albumName.text)
  ELSE encodeURIComponent(artistName)

AppleMusicQuery(artistName, albumName) ==
  IF albumName.present /\ albumName.text # <<>>
  THEN encodeURIComponent(artistName) \o <<" ">> \o encodeURIComponent(albumName.text)
  ELSE encodeURIComponent(artistName)

DeezerQuery(artistName, albumName) ==
  IF albumName.present /\ albumName.text # <<>>
  THEN encodeURIComponent(artistName) \o <<" ">> \o encodeURIComponent(albumName.text)
  ELSE encodeURIComponent(artistName)

SearchQuery(p, artistName, albumName) ==
  CASE p = "spotify" -> SpotifyQuery(artistName, albumName)
    [] p = "appleMusic" -> AppleMusicQuery(artistName, albumName)
    [] p = "deezer" -> DeezerQuery(artistName, albumName)

\* the arguments of searchAllPlatforms and of the adapters
NotCalled == [called |-> FALSE, artistName |-> <<>>, albumName |-> Absent]

Called(artistName, albumName) ==
  [called |-> TRUE, artistName |-> artistName, albumName |-> albumName]

NotBuilt == [built |-> FALSE, q |-> <<>>]

Built(q) == [built |-> TRUE, q |-> q]

(***************************************************************************)
(* One run of searchAllPlatforms.                                          *)
(*   pc                  where the function stands                         *)
(*   spotifyAccessToken,                                                   *)
(*   appleMusicToken     its two locals, None until assigned               *)
(*   cred                what the two credential steps were answered       *)
(*   reqs                how many upstream requests were issued so far     *)
(*   ad[p]               the promise of platform p's adapter               *)
(*   outcome             the promise searchAllPlatforms returned           *)
(***************************************************************************)
NoError == Thrown("", "", "")

NoAlbum == Album(0, <<>>, <<>>, None, <<>>)

NoResult == [spotify |-> <<>>, appleMusic |-> <<>>, deezer |-> <<>>]

NoTokenBody == [parses |-> FALSE, access_token |-> None]

\* st: idle, searching (search request in flight), details (detail requests
\* in flight), ok (resolved with albums), failed (rejected with err);
\* sStatus: status of the search response (0: none yet); hits: the album ids
\* of the search hits; done: the positions whose detail call has resolved;
\* albums: the array Promise.all fills, by position; badDetail: the status of
\* a detail response that was not ok (0: none)
IdleAdapter ==
  [st |-> "idle", sStatus |-> 0, hits |-> <<>>, done |-> {}, albums |-> <<>>,
   badDetail |-> 0, err |-> NoError]

\* the requests issued: the token request, and per platform the search
\* request and the detail requests
NoRequests ==
  [token |-> 0, search |-> [p \in Platforms |-> 0], detail |-> [p \in Platforms |-> 0]]

Pending == [st |-> "pending", err |-> NoError, result |-> NoResult]

NoResponse == [status |-> 0, error |-> "", albums |-> NoResult]

\* the variables of the request boundary and of the adapters' queries at rest
EdgeIdle ==
  /\ form = NoForm
  /\ args = NotCalled
  /\ query = [p \in Platforms |-> NotBuilt]
  /\ hpc = "idle"
  /\ response = NoResponse
  /\ log = <<>>
  /\ PageIdle

AggInit ==
  /\ pc = "start"
  /\ spotifyAccessToken = None
  /\ appleMusicToken = None
  /\ cred = [tokenAnswered |-> FALSE, tokenBody |-> NoTokenBody, sign |-> "untried"]
  /\ reqs = NoRequests
  /\ ad = [p \in Platforms |-> IdleAdapter]
  /\ outcome = Pending

InitMap ==
  /\ AggInit
  /\ MapInput(mIn)
  /\ mOut = NotRun
  /\ EdgeIdle

NextMap ==
  \/ CallGetSpotifyAlbumDetails
  \/ CallGetAppleMusicAlbumDetails
  \/ CallGetDeezerAlbumDetails

SpecMap == InitMap /\ [][NextMap]_vars

(***************************************************************************)
(* Credentials.                                                            *)
(***************************************************************************)
\* the bodies the token endpoint answers with: not JSON, or an object with
\* or without access_token
TokenBodies ==
  {[parses |-> FALSE, access_token |-> None],
   [parses |-> TRUE, access_token |-> "BQD"],
   [parses |-> TRUE, access_token |-> None],
   [parses |-> TRUE, access_token |-> ""]}

SyntaxError == Thrown("SyntaxError", "Unexpected token in JSON", "")

SpotifyTokenMsg == "Spotify Access Token konnte nicht generiert werden. "

AppleTokenMsg == "Fehler beim Generieren des Apple Music Tokens: "

\* getSpotifyAccessToken from the response of the token endpoint on
getSpotifyAccessToken(body) ==
  IF ~body.parses THEN Failure(SyntaxError)
  ELSE IF Truthy(body.access_token) THEN Success(body.access_token)
  ELSE Failure(Thrown("Error", SpotifyTokenMsg, ""))

\* getAppleMusicToken: reads the key file and signs
getAppleMusicToken(keyReadable) ==
  IF keyReadable THEN Success("jwt")
  ELSE Failure(Thrown("Error", AppleTokenMsg, "ENOENT"))

\* !spotifyAccessToken || !appleMusicToken
CredentialsMissing(sp, am) == ~Truthy(sp) \/ ~Truthy(am)

(***************************************************************************)
(* The adapters, from the search response on.                              *)
(***************************************************************************)
Limit == 5

\* the search bodies: not JSON, JSON without the results container, or the
\* container with n hits, whose album ids are n down to 1
SearchBodies(most) ==
  {[parses |-> FALSE, hasContainer |-> FALSE, items |-> <<>>],
   [parses |-> TRUE, hasContainer |-> FALSE, items |-> <<>>]}
  \cup {[parses |-> TRUE, hasContainer |-> TRUE, items |-> [i \in 1..n |-> n + 1 - i]] :
          n \in 0..most}

\* the detail requests issued so far
DetailsIssued ==
  reqs.detail["spotify"] + reqs.detail["appleMusic"] + reqs.detail["deezer"]

searchSpotifyAlbums(status, body) ==
  IF ~body.parses THEN Failure(SyntaxError)
  ELSE IF ~body.hasContainer
  THEN Failure(Thrown("TypeError", "Cannot read properties of undefined (reading 'items')", ""))
  ELSE Success(body.items)

searchAppleMusicAlbums(status, body) ==
  IF ~ResponseOk(status)
  THEN Failure(Thrown("Error", "Apple Music API request failed: ", StatusText(status)))
  ELSE IF ~body.parses THEN Failure(SyntaxError)
  ELSE IF ~body.hasContainer
  THEN Failure(Thrown("Error", "Unexpected API response structure", ""))
  ELSE Success(body.items)

\* without the test of data.data.length
searchDeezerAlbums_emptyAllowed(status, body) ==
  IF ~ResponseOk(status)
  THEN Failure(Thrown("Error", "Deezer API request failed: ", StatusText(status)))
  ELSE IF ~body.parses THEN Failure(SyntaxError)
  ELSE IF ~body.hasContainer
  THEN Failure(Thrown("Error", "Keine Alben gefunden", ""))
  ELSE Success(body.items)

searchDeezerAlbums(status, body) ==
  IF ~ResponseOk(status)
  THEN Failure(Thrown("Error", "Deezer API request failed: ", StatusText(status)))
  ELSE IF ~body.parses THEN Failure(SyntaxError)
  ELSE IF ~body.hasContainer \/ Len(body.items) = 0
  THEN Failure(Thrown("Error", "Keine Alben gefunden", ""))
  ELSE Success(body.items)

searchAlbums(p, status, body) ==
  CASE p = "spotify" -> searchSpotifyAlbums(status, body)
    [] p = "appleMusic" -> searchAppleMusicAlbums(status, body)
    [] p = "deezer" -> searchDeezerAlbums(status, body)

\* the album ids whose detail payload may come without a release date
Undated == {1}

\* the detail payload the upstream answers with for album id
DetailPayload(p, id, hasDate) ==
  Payload(id, hasDate, IF hasDate THEN SampleDate ELSE <<>>, TRUE, SampleTracks(p),
          SampleCover)

(***************************************************************************)
(* searchAllPlatforms.                                                     *)
(***************************************************************************)
\* albums.slice(0, 5), without the cut
Slice5_uncut(albums) == albums

\* albums.slice(0, 5)
Slice5(albums) == SubSeq(albums, 1, IF Len(albums) < Limit THEN Len(albums) ELSE Limit)

\* Promise.all taken for Promise.race: the first adapter to settle decides
Settle_firstSettled(o, a) ==
  IF o.st # "pending" THEN o
  ELSE IF \E p \in Platforms : a[p].st = "failed"
  THEN [st |-> "failed",
        err |-> a[CHOOSE p \in Platforms : a[p].st = "failed"].err,
        result |-> NoResult]
  ELSE IF \E p \in Platforms : a[p].st = "ok"
  THEN [st |-> "ok", err |-> NoError,
        result |-> [spotify |-> Slice5(a["spotify"].albums),
                    appleMusic |-> Slice5(a["appleMusic"].albums),
                    deezer |-> Slice5(a["deezer"].albums)]]
  ELSE o

\* what the await of Promise.all and the lines after it make of the three
\* adapter promises a: nothing while one is unsettled and none has failed,
\* the rethrown error of the adapter that failed, or the result object
Settle(o, a) ==
  IF o.st # "pending" THEN o
  ELSE IF \E p \in Platforms : a[p].st = "failed"
  THEN [st |-> "failed",
        err |-> a[CHOOSE p \in Platforms : a[p].st = "failed"].err,
        result |-> NoResult]
  ELSE IF \A p \in Platforms : a[p].st = "ok"
  THEN [st |-> "ok", err |-> NoError,
        result |-> [spotify |-> Slice5(a["spotify"].albums),
                    appleMusic |-> Slice5(a["appleMusic"].albums),
                    deezer |-> Slice5(a["deezer"].albums)]]
  ELSE o

Rejected(err) == [st |-> "failed", err |-> err, result |-> NoResult]

\* the adapters awaited one after the other: only the first search goes out
WithSearches_oneByOne(r) == [r EXCEPT !.search["spotify"] = @ + 1]

\* one more search request per platform
WithSearches(r) == [r EXCEPT !.search = [p \in Platforms |-> @[p] + 1]]

\* the token request goes out and, the await left out, the function runs on
FetchSpotifyToken_noAwait ==
  /\ pc = "start"
  /\ reqs' = WithSearches([reqs EXCEPT !.token = @ + 1])
  /\ appleMusicToken' = "jwt"
  /\ cred' = [cred EXCEPT !.sign = "signed"]
  /\ ad' = [p \in Platforms |-> [IdleAdapter EXCEPT !.st = "searching"]]
  /\ pc' = "awaitAll"
  /\ UNCHANGED <<spotifyAccessToken, outcome, mapVars, edgeVars>>

\* getSpotifyAccessToken up to its await of fetch
FetchSpotifyToken ==
  /\ pc = "start"
  /\ reqs' = [reqs EXCEPT !.token = @ + 1]
  /\ pc' = "awaitToken"
  /\ UNCHANGED <<spotifyAccessToken, appleMusicToken, cred, ad, outcome, mapVars, edgeVars>>

\* the token endpoint answers
SpotifyTokenResponse ==
  /\ pc = "awaitToken"
  /\ \E body \in TokenBodies :
       LET r == getSpotifyAccessToken(body)
       IN  /\ cred' = [cred EXCEPT !.tokenAnswered = TRUE, !.tokenBody = body]
           /\ IF r.ok
              THEN /\ spotifyAccessToken' = r.value
                   /\ pc' = "sign"
                   /\ UNCHANGED outcome
              ELSE /\ outcome' = Rejected(r.err)
                   /\ pc' = "done"
                   /\ UNCHANGED spotifyAccessToken
  /\ UNCHANGED <<appleMusicToken, reqs, ad, mapVars, edgeVars>>

\* a failed signing is passed over and the searches go out all the same
SignAndSearch_ignoreFailure ==
  /\ pc = "sign"
  /\ \E keyReadable \in BOOLEAN :
       LET r == getAppleMusicToken(keyReadable)
       IN  /\ cred' = [cred EXCEPT !.sign = IF r.ok THEN "signed" ELSE "failed"]
           /\ appleMusicToken' = IF r.ok THEN r.value ELSE None
           /\ reqs' = WithSearches(reqs)
           /\ ad' = [p \in Platforms |-> [IdleAdapter EXCEPT !.st = "searching"]]
           /\ pc' = "awaitAll"
           /\ UNCHANGED outcome
  /\ UNCHANGED <<spotifyAccessToken, mapVars, edgeVars>>

\* getAppleMusicToken, the check of both tokens, and the three adapter calls
\* of Promise.all, each up to its await of fetch
SignAndSearch ==
  /\ pc = "sign"
  /\ \E keyReadable \in BOOLEAN :
       LET r == getAppleMusicToken(keyReadable)
       IN  IF ~r.ok
           THEN /\ cred' = [cred EXCEPT !.sign = "failed"]
                /\ outcome' = Rejected(r.err)
                /\ pc' = "done"
                /\ UNCHANGED <<appleMusicToken, reqs, ad, query>>
           ELSE /\ cred' = [cred EXCEPT !.sign = "signed"]
                /\ appleMusicToken' = r.value
                /\ IF CredentialsMissing(spotifyAccessToken, r.value)
                   THEN /\ outcome' = Rejected(Thrown("Error", "API keys are missing. ", ""))
                        /\ pc' = "done"
                        /\ UNCHANGED <<reqs, ad, query>>
                   ELSE /\ reqs' = WithSearches(reqs)
                        /\ ad' = [p \in Platforms |-> [IdleAdapter EXCEPT !.st = "searching"]]
                        /\ query' = [p \in Platforms |->
                                       Built(SearchQuery(p, args.artistName, args.albumName))]
                        /\ pc' = "awaitAll"
                        /\ UNCHANGED outcome
  /\ UNCHANGED <<spotifyAccessToken, mapVars, postVars, log, pageVars>>

\* the adapter a of platform p after its search was answered: it has
\* failed, resolved with no album, or issued one detail request per hit
SearchAnswered(a, p, status, body) ==
  LET r == searchAlbums(p, status, body)
  IN  IF ~r.ok
      THEN [IdleAdapter EXCEPT !.st = "failed", !.sStatus = status, !.err = r.err]
      ELSE IF Len(r.value) = 0
      THEN [a EXCEPT !.st = "ok", !.sStatus = status]
      ELSE [a EXCEPT !.st = "details", !.sStatus = status,
                     !.hits = r.value,
                     !.albums = [i \in 1..Len(r.value) |-> NoAlbum]]

\* only the first hit's details are requested when the search is answered
DetailsOf_firstOnly(p, status, body) ==
  LET r == searchAlbums(p, status, body)
  IN  IF r.ok /\ Len(r.value) > 0 THEN 1 ELSE 0

\* the detail requests an answered search makes the adapter issue
DetailsOf(p, status, body) ==
  LET r == searchAlbums(p, status, body)
  IN  IF r.ok THEN Len(r.value) ELSE 0

\* the albums are collected in the order in which the detail calls resolve
DetailAnswered_inArrivalOrder(a, p, i, status, hasDate) ==
  LET r == getAlbumDetails(p, status, DetailPayload(p, a.hits[i], hasDate))
  IN  IF ~r.ok
      THEN [IdleAdapter EXCEPT !.st = "failed", !.sStatus = a.sStatus,
                               !.err = r.err,
                               !.badDetail = IF ResponseOk(status) THEN 0 ELSE status]
      ELSE [a EXCEPT !.albums[Cardinality(a.done) + 1] = r.value,
                     !.done = @ \cup {i},
                     !.st = IF a.done \cup {i} = 1..Len(a.hits)
                            THEN "ok" ELSE "details"]

\* the adapter a of platform p after the detail call for hit i was answered:
\* the call's rejection rejects Promise.all and the adapter, its album goes
\* to position i of the array Promise.all resolves with
DetailAnswered(a, p, i, status, hasDate) ==
  LET r == getAlbumDetails(p, status, DetailPayload(p, a.hits[i], hasDate))
  IN  IF ~r.ok
      THEN [IdleAdapter EXCEPT !.st = "failed", !.sStatus = a.sStatus,
                               !.err = r.err,
                               !.badDetail = IF ResponseOk(status) THEN 0 ELSE status]
      ELSE [a EXCEPT !.albums[i] = r.value,
                     !.done = @ \cup {i},
                     !.st = IF a.done \cup {i} = 1..Len(a.hits)
                            THEN "ok" ELSE "details"]

\* the search of platform p answers
SearchResponse ==
  \E p \in Platforms :
    /\ ad[p].st = "searching"
    /\ \E status \in RunStatuses :
       \E body \in SearchBodies(IF MaxTotalHits - DetailsIssued < MaxHits
                                THEN MaxTotalHits - DetailsIssued ELSE MaxHits) :
         /\ ad' = [ad EXCEPT ![p] = SearchAnswered(ad[p], p, status, body)]
         /\ reqs' = [reqs EXCEPT !.detail[p] = @ + DetailsOf(p, status, body)]
         /\ outcome' = Settle(outcome, ad')
         /\ pc' = IF outcome'.st = "pending" THEN pc ELSE "done"
    /\ UNCHANGED <<spotifyAccessToken, appleMusicToken, cred, mapVars, edgeVars>>

\* the detail request for hit i of platform p answers
DetailResponse ==
  \E p \in Platforms :
    /\ ad[p].st = "details"
    /\ \E i \in (1..Len(ad[p].hits)) \ ad[p].done :
       \E status \in RunStatuses,
          hasDate \in (IF ad[p].hits[i] \in Undated THEN BOOLEAN ELSE {TRUE}) :
         /\ ad' = [ad EXCEPT ![p] = DetailAnswered(ad[p], p, i, status, hasDate)]
         /\ outcome' = Settle(outcome, ad')
         /\ pc' = IF outcome'.st = "pending" THEN pc ELSE "done"
    /\ UNCHANGED <<spotifyAccessToken, appleMusicToken, cred, reqs, mapVars, edgeVars>>

\* searchAllPlatforms("a", "a"), called without the request boundary
SampleArgs == Called(<<"a">>, Given(<<"a">>))

Init ==
  /\ AggInit
  /\ mIn = IdleInput
  /\ mOut = NotRun
  /\ form = NoForm
  /\ args = SampleArgs
  /\ query = [p \in Platforms |-> NotBuilt]
  /\ hpc = "idle"
  /\ response = NoResponse
  /\ log = <<>>
  /\ PageIdle

Next ==
  \/ FetchSpotifyToken
  \/ SpotifyTokenResponse
  \/ SignAndSearch
  \/ SearchResponse
  \/ DetailResponse

Spec == Init /\ [][Next]_vars

(***************************************************************************)
(* The POST handler of /api/search around one run of searchAllPlatforms.   *)
(*   hpc   received (the form is read), awaitSearch, responded             *)
(***************************************************************************)
\* the message of line 19, its u-umlaut written ue
ArtistMissingMsg == "Kuenstlername muss angegeben werden."

SearchFailedMsg == "Fehler bei der Albumsuche."

Response(status, error, albums) ==
  [status |-> status, error |-> error, albums |-> albums]

\* !artistName: the response with status 400
PostReject ==
  /\ hpc = "received"
  /\ FormText(form.artistName) = <<>>
  /\ response' = Response(400, ArtistMissingMsg, NoResult)
  /\ hpc' = "responded"
  /\ UNCHANGED <<form, args, query, log, pageVars, aggVars, mapVars>>

\* the handler calls searchAllPlatforms with the trimmed names, which runs
\* up to the await of the token request
PostAccept ==
  /\ hpc = "received"
  /\ FormText(form.artistName) # <<>>
  /\ pc = "start"
  /\ args' = Called(FormText(form.artistName), Given(FormText(form.albumName)))
  /\ reqs' = [reqs EXCEPT !.token = @ + 1]
  /\ pc' = "awaitToken"
  /\ hpc' = "awaitSearch"
  /\ UNCHANGED <<form, response, query, log, pageVars, spotifyAccessToken, appleMusicToken,
                 cred, ad, outcome, mapVars>>

\* the catch block passes the message of the error on
PostRespond_leaksMessage ==
  /\ hpc = "awaitSearch"
  /\ outcome.st # "pending"
  /\ response' = IF outcome.st = "ok"
                 THEN Response(200, "", outcome.result)
                 ELSE Response(500, outcome.err.msg, NoResult)
  /\ hpc' = "responded"
  /\ UNCHANGED <<form, args, query, log, pageVars, aggVars, mapVars>>

\* the await of searchAllPlatforms settles: status 200 with the albums, or
\* the catch block's status 500
PostRespond ==
  /\ hpc = "awaitSearch"
  /\ outcome.st # "pending"
  /\ response' = IF outcome.st = "ok"
                 THEN Response(200, "", outcome.result)
                 ELSE Response(500, SearchFailedMsg, NoResult)
  /\ hpc' = "responded"
  /\ UNCHANGED <<form, args, query, log, pageVars, aggVars, mapVars>>

Forms(fields) == [artistName : fields, albumName : fields]

\* a request with any names of the bounded lengths, or with a name missing
InitRequest ==
  /\ AggInit
  /\ mIn = IdleInput
  /\ mOut = NotRun
  /\ form \in Forms({Absent} \cup {Given(n) : n \in Names})
  /\ args = NotCalled
  /\ query = [p \in Platforms |-> NotBuilt]
  /\ hpc = "received"
  /\ response = NoResponse
  /\ log = <<>>
  /\ PageIdle

\* the request up to the issue of the three searches
NextRequest ==
  \/ PostReject
  \/ PostAccept
  \/ SpotifyTokenResponse
  \/ SignAndSearch

SpecRequest == InitRequest /\ [][NextRequest]_vars

\* the artist names of the requests followed to their response
FewArtists == {Absent, Given(<<>>), Given(<<" ">>), Given(<<"a">>)}

InitPost ==
  /\ AggInit
  /\ mIn = IdleInput
  /\ mOut = NotRun
  /\ form \in [artistName : FewArtists, albumName : {Absent}]
  /\ args = NotCalled
  /\ query = [p \in Platforms |-> NotBuilt]
  /\ hpc = "received"
  /\ response = NoResponse
  /\ log = <<>>
  /\ PageIdle

\* the promise of searchAllPlatforms has settled and the handler, which
\* awaits it, has not run on yet: its continuation is a microtask and runs
\* before the next upstream response is handled
HandlerIsNext == hpc = "awaitSearch" /\ outcome.st # "pending"

NextPost ==
  \/ PostReject
  \/ PostAccept
  \/ PostRespond
  \/ ~HandlerIsNext /\ SpotifyTokenResponse
  \/ ~HandlerIsNext /\ SignAndSearch
  \/ ~HandlerIsNext /\ SearchResponse
  \/ ~HandlerIsNext /\ DetailResponse

SpecPost == InitPost /\ [][NextPost]_vars

(***************************************************************************)
(* One call of one adapter (searchSpotifyAlbums, searchAppleMusicAlbums or *)
(* searchDeezerAlbums), with the order in which its detail calls resolve.  *)
(*   log   the positions of the hits in the order their detail calls       *)
(*         resolved                                                        *)
(***************************************************************************)
\* the adapter of platform p is called and runs up to its await of fetch
CallAdapter ==
  /\ pc = "adapter"
  /\ \E p \in Platforms :
       /\ ad' = [ad EXCEPT ![p] = [IdleAdapter EXCEPT !.st = "searching"]]
       /\ reqs' = [reqs EXCEPT !.search[p] = @ + 1]
       /\ query' = [query EXCEPT ![p] = Built(SearchQuery(p, args.artistName, args.albumName))]
  /\ pc' = "awaitAdapter"
  /\ UNCHANGED <<spotifyAccessToken, appleMusicToken, cred, outcome, mapVars, postVars, log,
                 pageVars>>

AdapterSearchResponse ==
  \E p \in Platforms :
    /\ pc = "awaitAdapter"
    /\ ad[p].st = "searching"
    /\ \E status \in RunStatuses, body \in SearchBodies(MaxHits) :
         /\ ad' = [ad EXCEPT ![p] = SearchAnswered(ad[p], p, status, body)]
         /\ reqs' = [reqs EXCEPT !.detail[p] = @ + DetailsOf(p, status, body)]
    /\ UNCHANGED <<pc, spotifyAccessToken, appleMusicToken, cred, outcome, mapVars, edgeVars>>

AdapterDetailResponse ==
  \E p \in Platforms :
    /\ pc = "awaitAdapter"
    /\ ad[p].st = "details"
    /\ \E i \in (1..Len(ad[p].hits)) \ ad[p].done :
       \E status \in RunStatuses,
          hasDate \in (IF ad[p].hits[i] \in Undated THEN BOOLEAN ELSE {TRUE}) :
         /\ ad' = [ad EXCEPT ![p] = DetailAnswered(ad[p], p, i, status, hasDate)]
         /\ log' = IF ad'[p].st = "failed" THEN <<>> ELSE Append(log, i)
    /\ UNCHANGED <<pc, spotifyAccessToken, appleMusicToken, cred, reqs, outcome,
                   mapVars, form, args, query, hpc, response, pageVars>>

\* the tokens are the arguments of the call
InitAdapter ==
  /\ pc = "adapter"
  /\ spotifyAccessToken = "BQD"
  /\ appleMusicToken = "jwt"
  /\ cred = [tokenAnswered |-> FALSE, tokenBody |-> NoTokenBody, sign |-> "untried"]
  /\ reqs = NoRequests
  /\ ad = [p \in Platforms |-> IdleAdapter]
  /\ outcome = Pending
  /\ mIn = IdleInput
  /\ mOut = NotRun
  /\ form = NoForm
  /\ args = SampleArgs
  /\ query = [p \in Platforms |-> NotBuilt]
  /\ hpc = "idle"
  /\ response = NoResponse
  /\ log = <<>>
  /\ PageIdle

NextAdapter ==
  \/ CallAdapter
  \/ AdapterSearchResponse
  \/ AdapterDetailResponse

SpecAdapter == InitAdapter /\ [][NextAdapter]_vars

(***************************************************************************)
(* The browser page: the submit handler of the search form and             *)
(* displayPlatformResults.  Every submission runs its own call of the      *)
(* async handler; nothing in the page disables the form, aborts a request  *)
(* or tells the calls apart.                                               *)
(*   loadingText  the display style of the loading indicator               *)
(*   resultsDiv   the children of the results area, in document order      *)
(*   submits      the calls of the handler, in order of submission:        *)
(*                at    awaitFetch, awaitJson, done, threw                 *)
(*                body  what the response of the call carries              *)
(***************************************************************************)
\* most submissions of the form in one run
MaxSubmits == 3

\* the headings displayPlatformResults is called with, in call order
PlatformNames == <<"Spotify", "Apple Music", "Deezer">>

\* what a request can end with: the handler's JSON with the three album
\* lists (status 200), its JSON with only an error (status 400 or 500), a
\* body that is no JSON, or no response at all (fetch rejects)
FetchOutcomes == {"albums", "error", "notJSON", "rejected"}

\* a child of the results area; search is the submission whose response it
\* was built from
Element(tag, k, platformName) ==
  [tag |-> tag, search |-> k, platform |-> platformName]

\* the paragraph of line 298
ErrorParagraph(k) == Element("p", k, "")

\* displayPlatformResults appends the heading, then the card container
\* holding the cards of the albums
displayPlatformResults(div, k, platformName) ==
  div \o <<Element("h2", k, platformName), Element("div", k, platformName)>>

\* the three calls of lines 303 to 305
DisplayAll(div, k) ==
  displayPlatformResults(
    displayPlatformResults(
      displayPlatformResults(div, k, PlatformNames[1]),
      k, PlatformNames[2]),
    k, PlatformNames[3])

Awaiting(k) == submits[k].at \in {"awaitFetch", "awaitJson"}

\* the form is submitted: the handler shows the indicator, empties the
\* results area and runs up to its await of fetch
Submit ==
  /\ pc = "page"
  /\ Len(submits) < MaxSubmits
  /\ loadingText' = "block"
  /\ resultsDiv' = <<>>
  /\ submits' = Append(submits, [at |-> "awaitFetch", body |-> "none"])
  /\ UNCHANGED <<aggVars, mapVars, form, args, query, hpc, response, log>>

\* the fetch of one call settles: with a response, whose body is then read,
\* or with a rejection, which ends the call at line 288
FetchResponse ==
  \E k \in 1..Len(submits) :
    /\ submits[k].at = "awaitFetch"
    /\ \E o \in FetchOutcomes :
         submits' = [submits EXCEPT ![k] =
                       IF o = "rejected"
                       THEN [at |-> "threw", body |-> "none"]
                       ELSE [at |-> "awaitJson", body |-> o]]
    /\ UNCHANGED <<aggVars, mapVars, form, args, query, hpc, response, log,
                   loadingText, resultsDiv>>

\* response.json() of one call settles and the call runs to its end: a
\* body that is no JSON ends it at line 293; otherwise the indicator is
\* hidden and the results area gets the paragraph or the three sections
JsonParsed ==
  \E k \in 1..Len(submits) :
    /\ submits[k].at = "awaitJson"
    /\ IF submits[k].body = "notJSON"
       THEN /\ submits' = [submits EXCEPT ![k].at = "threw"]
            /\ UNCHANGED <<loadingText, resultsDiv>>
       ELSE /\ submits' = [submits EXCEPT ![k].at = "done"]
            /\ loadingText' = "none"
            /\ resultsDiv' = IF submits[k].body = "error"
                             THEN <<ErrorParagraph(k)>>
                             ELSE DisplayAll(resultsDiv, k)
    /\ UNCHANGED <<aggVars, mapVars, form, args, query, hpc, response, log>>

\* the page as loaded
InitPage ==
  /\ pc = "page"
  /\ spotifyAccessToken = "BQD"
  /\ appleMusicToken = "jwt"
  /\ cred = [tokenAnswered |-> FALSE, tokenBody |-> NoTokenBody, sign |-> "untried"]
  /\ reqs = NoRequests
  /\ ad = [p \in Platforms |-> IdleAdapter]
  /\ outcome = Pending
  /\ mIn = IdleInput
  /\ mOut = NotRun
  /\ form = NoForm
  /\ args = SampleArgs
  /\ query = [p \in Platforms |-> NotBuilt]
  /\ hpc = "idle"
  /\ response = NoResponse
  /\ log = <<>>
  /\ PageIdle

NextPage ==
  \/ Submit
  \/ FetchResponse
  \/ JsonParsed

SpecPage == InitPage /\ [][NextPage]_vars

(***************************************************************************)
(* Properties of the detail functions, checked under SpecMap.              *)
(***************************************************************************)
\* the detail function returned an album
Mapped == mOut.run /\ mOut.res.ok

\* the native track sequence of the payload the function was given
NativeTrackSeq == IF mIn.album.hasTracks THEN mIn.album.tracks ELSE <<>>

\* the preview a native track offers
NativePreview(p, t) ==
  CASE p = "spotify" -> t.preview_url
    [] p = "deezer" -> t.preview
    [] p = "appleMusic" ->
         IF t.hasPreviews /\ t.previews # <<>> THEN Head(t.previews) ELSE None

NativeDuration(p, t) ==
  CASE p = "spotify" -> t.duration_ms
    [] p = "deezer" -> t.duration
    [] p = "appleMusic" -> t.durationInMillis

WithPreview ==
  {i \in 1..Len(NativeTrackSeq) :
     /\ NativePreview(mIn.platform, NativeTrackSeq[i]) # None
     /\ NativePreview(mIn.platform, NativeTrackSeq[i]) # ""}

\* pat occurs in s
Occurs(pat, s) ==
  \E i \in 1..(Len(s) - Len(pat) + 1) : SubSeq(s, i, i + Len(pat) - 1) = pat

\* C6: on all three platforms the album's previewUrl is the preview of the
\* first track, in native order, that has a non-empty preview (Apple Music:
\* the first entry of the track's previews list), and null when no track
\* has one.
C6_PreviewIsFirstAvailable ==
  Mapped =>
    IF WithPreview = {}
    THEN mOut.res.value.previewUrl = None
    ELSE \E i \in WithPreview :
           /\ \A j \in WithPreview : i <= j
           /\ mOut.res.value.previewUrl = NativePreview(mIn.platform, NativeTrackSeq[i])

\* a track without a preview, then one with preview X, then one with
\* preview Y: the album got X
C6_Witness ==
  /\ Mapped
  /\ mIn.platform = "spotify"
  /\ Len(NativeTrackSeq) = 3
  /\ NativeTrackSeq[1].preview_url = ""
  /\ NativeTrackSeq[2].preview_url = "X"
  /\ NativeTrackSeq[3].preview_url = "Y"
  /\ mOut.res.value.previewUrl = "X"

\* C7: the coverUrl of an Apple Music album contains neither {w} nor {h},
\* however often the placeholders occur in the artwork URL template.
C7_NoPlaceholderLeft ==
  (Mapped /\ mIn.platform = "appleMusic") =>
    /\ ~Occurs(PlaceholderW, mOut.res.value.coverUrl)
    /\ ~Occurs(PlaceholderH, mOut.res.value.coverUrl)

\* C8: every track's duration is in milliseconds: Deezer's seconds times
\* 1000, Spotify's and Apple Music's milliseconds unchanged.
C8_DurationInMillis ==
  Mapped =>
    /\ Len(mOut.res.value.tracklist) = Len(NativeTrackSeq)
    /\ \A i \in 1..Len(NativeTrackSeq) :
         mOut.res.value.tracklist[i].duration =
           IF mIn.platform = "deezer"
           THEN NativeDuration("deezer", NativeTrackSeq[i]) * 1000
           ELSE NativeDuration(mIn.platform, NativeTrackSeq[i])

\* a Deezer track of 180 seconds came out as 180000
C8_Witness ==
  /\ Mapped
  /\ mIn.platform = "deezer"
  /\ \E i \in 1..Len(NativeTrackSeq) :
       /\ NativeTrackSeq[i].duration = 180
       /\ mOut.res.value.tracklist[i].duration = 180000

\* C9: a Deezer tracklist has the length and order of the native tracks and
\* the track at 1-based position i has trackNumber i.
C9_DeezerNumbering ==
  (Mapped /\ mIn.platform = "deezer") =>
    /\ Len(mOut.res.value.tracklist) = Len(NativeTrackSeq)
    /\ \A i \in 1..Len(NativeTrackSeq) :
         /\ mOut.res.value.tracklist[i].name = NativeTrackSeq[i].title
         /\ mOut.res.value.tracklist[i].trackNumber = i

\* three Deezer tracks B, A, B were numbered 1, 2, 3
C9_Witness ==
  /\ Mapped
  /\ mIn.platform = "deezer"
  /\ Len(NativeTrackSeq) = 3
  /\ NativeTrackSeq[1].title = "B"
  /\ NativeTrackSeq[2].title = "A"
  /\ [i \in 1..3 |-> mOut.res.value.tracklist[i].trackNumber] = <<1, 2, 3>>
  /\ [i \in 1..3 |-> mOut.res.value.tracklist[i].name] = <<"B", "A", "B">>

\* the payload carries a release date (a missing field and an empty string
\* both count as none)
HasReleaseDate == mIn.album.hasDate /\ Len(mIn.album.release_date) > 0

\* y is the part of date d before its first "-"
IsLeadingSegment(y, d) ==
  /\ Len(y) <= Len(d)
  /\ \A i \in 1..Len(y) : y[i] = d[i] /\ y[i] # "-"
  /\ Len(y) < Len(d) => d[Len(y) + 1] = "-"

\* C10: on a successful response getDeezerAlbumDetails does not fail for a
\* payload without release date and yields year "Unknown"; with a release
\* date the year is the part of the date before its first "-".
C10_DeezerYear ==
  (mOut.run /\ mIn.platform = "deezer" /\ ResponseOk(mIn.status)) =>
    /\ mOut.res.ok
    /\ ~HasReleaseDate => mOut.res.value.year = Unknown
    /\ HasReleaseDate => IsLeadingSegment(mOut.res.value.year, mIn.album.release_date)

\* a Deezer payload without the release_date field was mapped
C10_Witness ==
  /\ Mapped
  /\ mIn.platform = "deezer"
  /\ ~mIn.album.hasDate
  /\ mOut.res.value.year = Unknown

(***************************************************************************)
(* Properties of searchAllPlatforms, checked under Spec.                   *)
(***************************************************************************)
\* searchAllPlatforms returned a result
Returned == outcome.st = "ok"

\* r is the longest prefix of a that has at most Limit elements
IsCappedPrefix(r, a) ==
  /\ Len(r) <= Limit
  /\ Len(r) <= Len(a)
  /\ \A i \in 1..Len(r) : r[i] = a[i]
  /\ Len(r) < Limit => Len(r) = Len(a)

\* C1: a returned result has exactly the keys spotify, appleMusic and deezer,
\* each a sequence of at most 5 albums that is the prefix of what the
\* platform's adapter returned, also when the adapter returned more than 5.
C1_ResultIsCappedPrefix ==
  Returned =>
    /\ DOMAIN outcome.result = {"spotify", "appleMusic", "deezer"}
    /\ \A p \in Platforms : IsCappedPrefix(outcome.result[p], ad[p].albums)

\* an adapter returned more than 5 albums and the result was returned
C1_Witness ==
  /\ Returned
  /\ \E p \in Platforms :
       /\ Len(ad[p].albums) > Limit
       /\ Len(outcome.result[p]) = Limit

\* the search of platform p was answered with a non-success status
SearchNotOk(p) == ad[p].sStatus # 0 /\ ~(ad[p].sStatus \in 200..299)

\* C2: when an adapter fails, searchAllPlatforms fails with an error of a
\* failed adapter and returns no result, whatever the other adapters do; a
\* search answered with HTTP 503 on any platform makes the aggregation fail.
C2_AnyAdapterFailureFailsAll ==
  /\ \A p \in Platforms :
       ad[p].st = "failed" =>
         /\ outcome.st = "failed"
         /\ outcome.result = NoResult
         /\ \E q \in Platforms : ad[q].st = "failed" /\ outcome.err = ad[q].err
  /\ Returned => \A p \in Platforms : ~SearchNotOk(p)

\* some search or detail request was issued
AdapterRequestIssued ==
  \E p \in Platforms : reqs.search[p] > 0 \/ reqs.detail[p] > 0

\* C3: no search request (and so no detail request) is issued before the
\* Spotify token exchange has returned a token and the Apple Music token has
\* been signed.
C3_NoSearchBeforeCredentials ==
  AdapterRequestIssued =>
    /\ cred.tokenAnswered
    /\ cred.tokenBody.access_token \notin {None, ""}
    /\ spotifyAccessToken = cred.tokenBody.access_token
    /\ cred.sign = "signed"
    /\ appleMusicToken \notin {None, ""}

\* the three searches are out
C3_Witness ==
  /\ \A p \in Platforms : reqs.search[p] = 1
  /\ cred.sign = "signed"

\* the token endpoint answered without an access token
NoAccessToken ==
  /\ cred.tokenAnswered
  /\ cred.tokenBody.parses
  /\ cred.tokenBody.access_token \in {None, ""}

IsAuthenticationError(err) ==
  err.name = "Error" /\ err.msg \in {SpotifyTokenMsg, AppleTokenMsg}

ProviderMessages(p) ==
  CASE p = "spotify" -> {"Spotify API returned an error: "}
    [] p = "appleMusic" -> {"Apple Music API request failed: "}
    [] p = "deezer" -> {"Deezer API request failed: "}

\* err names platform p and carries the status
IsProviderError(err, p, status) ==
  /\ err.name = "Error"
  /\ err.msg \in ProviderMessages(p)
  /\ err.text = StatusText(status)

\* C5: on every platform a non-success status of the search call or of a
\* detail call makes the adapter fail with a provider error that names the
\* platform and carries the status; the body of a non-success search
\* response is never mapped into albums.
C5_NonSuccessIsProviderError ==
  \A p \in Platforms :
    /\ SearchNotOk(p) =>
         /\ ad[p].st = "failed"
         /\ IsProviderError(ad[p].err, p, ad[p].sStatus)
         /\ reqs.detail[p] = 0
    /\ ad[p].badDetail # 0 =>
         /\ ad[p].st = "failed"
         /\ IsProviderError(ad[p].err, p, ad[p].badDetail)

(***************************************************************************)
(* Properties of the request boundary and of the search query, checked     *)
(* under SpecRequest.                                                      *)
(***************************************************************************)
\* the characters encodeURIComponent escapes
Escaped == {" ", "&", "%"}

\* the character a percent escape stands for
EscapedChar(hi, lo) ==
  CASE hi = "2" /\ lo = "0" -> " "
    [] hi = "2" /\ lo = "6" -> "&"
    [] hi = "2" /\ lo = "5" -> "%"
    [] OTHER -> "?"

RECURSIVE PercentDecode(_)
PercentDecode(e) ==
  IF e = <<>> THEN <<>>
  ELSE IF Head(e) = "%" /\ Len(e) >= 3
  THEN <<EscapedChar(e[2], e[3])>> \o PercentDecode(SubSeq(e, 4, Len(e)))
  ELSE <<Head(e)>> \o PercentDecode(Tail(e))

\* e is the percent-encoding of s: it decodes to s, every character of s
\* that needs an escape takes three characters of e, and none is left raw
IsPercentEncodingOf(e, s) ==
  /\ PercentDecode(e) = s
  /\ Len(e) = Len(s) + 2 * Cardinality({i \in 1..Len(s) : s[i] \in Escaped})
  /\ \A i \in 1..Len(e) : e[i] \notin {" ", "&"}

\* the field is missing or holds white space only
Blank(field) == ~field.present \/ \A i \in 1..Len(field.text) : field.text[i] = " "

\* the adapter of platform p has built its query
QueryBuilt(p) == query[p].built

\* C11: on every adapter the search query is the percent-encoded artist
\* name alone when albumName is empty or absent, and otherwise the
\* percent-encoded artist name, one space and the percent-encoded album
\* name; the three adapters build the same query; an album name of the
\* request that is empty after trimming is treated as absent.
C11_QueryBuilding ==
  \A p \in Platforms :
    QueryBuilt(p) =>
      LET q == query[p].q
          artist == args.artistName
          album == args.albumName
      IN  /\ (~album.present \/ album.text = <<>>) => IsPercentEncodingOf(q, artist)
          /\ (album.present /\ album.text # <<>>) =>
                \E k \in 1..Len(q) :
                  /\ q[k] = " "
                  /\ IsPercentEncodingOf(SubSeq(q, 1, k - 1), artist)
                  /\ IsPercentEncodingOf(SubSeq(q, k + 1, Len(q)), album.text)
          /\ \A o \in Platforms : QueryBuilt(o) => query[o].q = q
          /\ (hpc # "idle" /\ Blank(form.albumName)) => IsPercentEncodingOf(q, artist)

\* artist "a&" and album " %" were sent: the queries are "a%26 %25"
C11_Witness ==
  /\ form.artistName = Given(<<"a", "&">>)
  /\ form.albumName = Given(<<" ", "%">>)
  /\ \A p \in Platforms :
       /\ QueryBuilt(p)
       /\ query[p].q = <<"a", "%", "2", "6", " ", "%", "2", "5">>

\* C12: when the artistName field is missing, empty or only white space the
\* handler answers status 400 with an error body, searchAllPlatforms is not
\* invoked and no token, search or detail request is issued.
C12_BlankArtistRejected ==
  (hpc # "idle" /\ Blank(form.artistName)) =>
    /\ hpc \in {"received", "responded"}
    /\ hpc = "responded" =>
         /\ response.status = 400
         /\ response.error # ""
         /\ response.albums = NoResult
    /\ ~args.called
    /\ pc = "start"
    /\ reqs = NoRequests
    /\ \A p \in Platforms : ad[p].st = "idle" /\ ~QueryBuilt(p)

\* an artist name of two spaces was answered with status 400
C12_Witness ==
  /\ form.artistName = Given(<<" ", " ">>)
  /\ hpc = "responded"
  /\ response.status = 400

(***************************************************************************)
(* Properties of the POST handler, checked under SpecPost.                 *)
(***************************************************************************)
\* C13: whenever searchAllPlatforms fails, whatever the error, the handler's
\* response is status 500 with the one fixed body, so that any two failed
\* requests are answered identically and nothing of the error is passed on.
C13_FixedFailureResponse ==
  outcome.st = "failed" =>
    /\ hpc \in {"awaitSearch", "responded"}
    /\ hpc = "responded" => response = Response(500, SearchFailedMsg, NoResult)
    /\ hpc = "awaitSearch" => response = NoResponse

\* a failure with a provider error that carries the upstream's status text
\* was answered with the fixed body
C13_Witness ==
  /\ outcome.st = "failed"
  /\ outcome.err.text = "Service Unavailable"
  /\ hpc = "responded"
  /\ response.status = 500
  /\ response.error = SearchFailedMsg

(***************************************************************************)
(* Properties of one adapter call, checked under SpecAdapter.              *)
(***************************************************************************)
\* the names (the album ids the upstream answered with) of a's albums
AlbumNames(a) == [i \in 1..Len(a.albums) |-> a.albums[i].name]

\* C14: the albums an adapter returns are in the order of the search hits,
\* in whatever order the detail calls resolved: the i-th album is the
\* mapping of the i-th hit.
C14_AlbumsInHitOrder ==
  \A p \in Platforms :
    ad[p].st = "ok" =>
      /\ Len(ad[p].albums) = Len(ad[p].hits)
      /\ \A i \in 1..Len(ad[p].hits) : ad[p].albums[i].name = ad[p].hits[i]

\* the detail calls of the hits 3, 2, 1 resolved third, first, second and
\* the adapter returned the albums 3, 2, 1
C14_Witness ==
  \E p \in Platforms :
    /\ ad[p].st = "ok"
    /\ ad[p].hits = <<3, 2, 1>>
    /\ log = <<3, 1, 2>>
    /\ AlbumNames(ad[p]) = <<3, 2, 1>>

(***************************************************************************)
(* Further properties of searchAllPlatforms, checked under Spec.           *)
(***************************************************************************)
\* the adapter of platform p has resolved or rejected
Completed(p) == ad[p].st \in {"ok", "failed"}

\* an upstream call of platform p's adapter has not been answered
AwaitsUpstream(p) == ad[p].st \in {"searching", "details"}

\* C15 as stated: once the adapters are called, searchAllPlatforms settles
\* (returns or fails) only after all three adapters have completed, so with
\* one upstream call unanswered it is not settled.
C15_SettlesOnlyAfterAllCompleted ==
  (AdapterRequestIssued /\ outcome.st # "pending") => \A p \in Platforms : Completed(p)

\* C15 as amended: searchAllPlatforms returns a result only after all three
\* adapters have resolved, and fails as soon as one adapter fails, also
\* while calls of the other adapters are unanswered; with an upstream call
\* unanswered and no adapter failed it is not settled.
C15_ReturnsAfterAllFailsOnFirst ==
  /\ Returned => \A p \in Platforms : ad[p].st = "ok"
  /\ (\E p \in Platforms : ad[p].st = "failed") => outcome.st = "failed"
  /\ ((\E p \in Platforms : AwaitsUpstream(p)) /\ \A p \in Platforms : ad[p].st # "failed")
       => outcome.st = "pending"
  /\ (AdapterRequestIssued /\ outcome.st = "failed") => \E p \in Platforms : ad[p].st = "failed"

\* the Deezer search was refused while the Spotify search and an Apple Music
\* detail call were unanswered: searchAllPlatforms has failed
C15_Witness ==
  /\ ad["deezer"].st = "failed"
  /\ ad["spotify"].st = "searching"
  /\ ad["appleMusic"].st = "details"
  /\ outcome.st = "failed"
  /\ outcome.err = ad["deezer"].err

\* C16: the three search requests are issued together, none waiting for the
\* response of another platform's search; the detail requests of a platform
\* are issued only after its search response has arrived, and all of them
\* at once, none waiting for another album's detail response.
C16_RequestsInFlightTogether ==
  /\ \A p, o \in Platforms : reqs.search[p] = reqs.search[o]
  /\ \A p \in Platforms :
       /\ reqs.detail[p] > 0 => ad[p].sStatus # 0
       /\ ad[p].st = "searching" => reqs.detail[p] = 0
       /\ ad[p].st = "details" => reqs.detail[p] = Len(ad[p].hits)

\* the Spotify search was answered with two hits and both detail requests
\* are out, neither answered, while the two other searches are unanswered
C16_Witness ==
  /\ ad["spotify"].st = "details"
  /\ Len(ad["spotify"].hits) = 2
  /\ ad["spotify"].done = {}
  /\ reqs.detail["spotify"] = 2
  /\ ad["appleMusic"].st = "searching"
  /\ ad["deezer"].st = "searching"

\* both credentials are available
CredentialsAvailable ==
  /\ cred.sign = "signed"
  /\ ~CredentialsMissing(spotifyAccessToken, appleMusicToken)

\* at most one token request, at most one search request per platform and
\* exactly one once the credentials are available
TokenAndSearchCounts ==
  /\ reqs.token <= 1
  /\ \A p \in Platforms : reqs.search[p] <= 1
  /\ CredentialsAvailable => \A p \in Platforms : reqs.search[p] = 1

\* C17 as stated: one run issues at most one token request, exactly one
\* search request per platform and at most 5 detail requests per platform,
\* 15 in total, whatever the search responses contain.
C17_AtMostFiveDetailsPerPlatform ==
  /\ TokenAndSearchCounts
  /\ \A p \in Platforms : reqs.detail[p] <= Limit
  /\ DetailsIssued <= 3 * Limit

\* no request of platform p is issued in this step
NothingIssuedFor(p) ==
  /\ reqs'.search[p] = reqs.search[p]
  /\ reqs'.detail[p] = reqs.detail[p]

\* a detail request is out for every hit of platform p's search response
OneDetailRequestPerHit(p) ==
  /\ ad[p].st \in {"details", "ok"} => reqs.detail[p] = Len(ad[p].hits)
  /\ ad[p].st \in {"idle", "searching"} => reqs.detail[p] = 0

\* a step issues nothing for an adapter that has failed, and no token
\* request once searchAllPlatforms has settled
NoRepeatAfterFailure ==
  /\ \A p \in Platforms : ad[p].st = "failed" => NothingIssuedFor(p)
  /\ outcome.st # "pending" => reqs'.token = reqs.token /\ reqs'.search = reqs.search

\* C17 as amended: one run issues at most one token request, exactly one
\* search request per platform once the credentials are available, and per
\* platform exactly one detail request for each hit of the search response
\* (at most 5 when the upstream answers with at most the 5 hits asked for);
\* after a failure no request is repeated.
C17_OneDetailRequestPerHit ==
  /\ [](TokenAndSearchCounts /\ \A p \in Platforms : OneDetailRequestPerHit(p))
  /\ [][NoRepeatAfterFailure]_vars

\* the Deezer search was answered with six hits and six detail requests
\* went out
C17_Witness ==
  /\ reqs.token = 1
  /\ \A p \in Platforms : reqs.search[p] = 1
  /\ Len(ad["deezer"].hits) = 6
  /\ reqs.detail["deezer"] = 6

\* a JSON search body without the results container
NoContainerBody == [parses |-> TRUE, hasContainer |-> FALSE, items |-> <<>>]

\* in this step platform p's search is answered with status 200 and a body
\* without the results container
AnsweredWithoutContainer(p) ==
  /\ ad[p].st = "searching"
  /\ ad'[p] = SearchAnswered(ad[p], p, 200, NoContainerBody)

\* no non-success status makes platform p's search fail with err
NotAStatusError(err, p) ==
  \A status \in {st \in Statuses : ~ResponseOk(st)}, body \in SearchBodies(1) :
    searchAlbums(p, status, body).ok \/ searchAlbums(p, status, body).err # err

\* C18: a search answered with a success status and a payload without the
\* results container makes the adapter fail with an error that the adapter
\* raises for the payload, different from every error a non-success status
\* gives on that platform, and no detail request is issued.
C18_MissingContainerIsShapeError ==
  [][\A p \in Platforms :
       AnsweredWithoutContainer(p) =>
         /\ ad'[p].st = "failed"
         /\ ad'[p].err.name = "Error"
         /\ NotAStatusError(ad'[p].err, p)
         /\ reqs'.detail[p] = 0]_vars

\* a JSON search body whose results container holds no hit
ZeroHitsBody == [parses |-> TRUE, hasContainer |-> TRUE, items |-> <<>>]

NoAlbumsFound == Thrown("Error", "Keine Alben gefunden", "")

\* in this step the Deezer search is answered with status 200 and no hit
DeezerAnsweredWithZeroHits ==
  /\ ad["deezer"].st = "searching"
  /\ ad'["deezer"] = SearchAnswered(ad["deezer"], "deezer", 200, ZeroHitsBody)

\* C19: a successful Deezer search with zero hits makes searchDeezerAlbums
\* fail with "Keine Alben gefunden" instead of returning an empty sequence,
\* and searchAllPlatforms then returns no result, whatever Spotify and Apple
\* Music found; a returned result never has an empty deezer array.
C19_DeezerZeroHitsFailsAll ==
  /\ [][DeezerAnsweredWithZeroHits =>
          /\ ad'["deezer"].st = "failed"
          /\ ad'["deezer"].err = NoAlbumsFound
          /\ outcome'.st = "failed"
          /\ outcome'.result = NoResult]_vars
  /\ [](ad["deezer"].err = NoAlbumsFound => ~Returned)
  /\ [](Returned => Len(outcome.result["deezer"]) >= 1)

\* Spotify and Apple Music each returned albums, the Deezer search found
\* none: searchAllPlatforms has failed with Deezer's error
C19_Witness ==
  /\ ad["spotify"].st = "ok" /\ Len(ad["spotify"].albums) >= 1
  /\ ad["appleMusic"].st = "ok" /\ Len(ad["appleMusic"].albums) >= 1
  /\ ad["deezer"].st = "failed"
  /\ ad["deezer"].sStatus = 200
  /\ ad["deezer"].err = NoAlbumsFound
  /\ outcome.st = "failed"
  /\ outcome.err = NoAlbumsFound
  /\ outcome.result = NoResult

\* the TypeError of .split on a release date that is not there
NoDateToSplit ==
  Thrown("TypeError", "Cannot read properties of undefined (reading 'split')", "")

\* the hits of platform p whose detail call is unanswered
Unanswered(p) == (1..Len(ad[p].hits)) \ ad[p].done

\* in this step the detail call for hit i of platform p is answered with
\* status 200 and a payload without release date
AnsweredUndated(p, i) ==
  /\ ad[p].st = "details"
  /\ ad'[p] # ad[p]
  /\ ad'[p] = DetailAnswered(ad[p], p, i, 200, FALSE)

\* C20: a Spotify or Apple Music detail payload without release date makes
\* the mapper fail instead of yielding the year "Unknown"; the failure fails
\* the adapter and searchAllPlatforms, which returns none of the albums
\* mapped; the same payload on Deezer is mapped with the year "Unknown".
C20_UndatedAlbumFailsAll ==
  /\ [][\A p \in {"spotify", "appleMusic"} : \A i \in Unanswered(p) :
          AnsweredUndated(p, i) =>
            /\ ad'[p].st = "failed"
            /\ ad'[p].err = NoDateToSplit
            /\ outcome'.st = "failed"
            /\ outcome'.result = NoResult]_vars
  /\ [][\A i \in Unanswered("deezer") :
          AnsweredUndated("deezer", i) =>
            /\ ad'["deezer"].st # "failed"
            /\ ad'["deezer"].albums[i].year = Unknown]_vars
  /\ []((\E p \in Platforms : ad[p].err = NoDateToSplit) => ~Returned)

\* the one Spotify album without release date failed searchAllPlatforms,
\* while Apple Music and Deezer had each returned albums
C20_Witness ==
  /\ ad["spotify"].st = "failed"
  /\ ad["spotify"].err = NoDateToSplit
  /\ ad["appleMusic"].st = "ok" /\ Len(ad["appleMusic"].albums) >= 1
  /\ ad["deezer"].st = "ok" /\ Len(ad["deezer"].albums) >= 1
  /\ outcome.st = "failed"
  /\ outcome.err = NoDateToSplit
  /\ outcome.result = NoResult

(***************************************************************************)
(* Properties of the browser page, checked under SpecPage.                 *)
(***************************************************************************)
\* the submissions whose platform sections stand in the results area
SearchesShown ==
  {resultsDiv[i].search : i \in {j \in 1..Len(resultsDiv) : resultsDiv[j].tag # "p"}}

\* the most recent submission has displayed its albums
LatestDisplayed ==
  /\ submits # <<>>
  /\ submits[Len(submits)].at = "done"
  /\ submits[Len(submits)].body = "albums"

\* C21: after any interleaving of submissions and responses the results
\* area shows the platform sections of at most one search, the most
\* recently submitted one: a response to an earlier submission neither adds
\* its albums next to the later search's albums nor takes their place, and
\* the loading indicator is hidden only when no submission is still
\* awaiting its response.
C21_ShowsOnlyLatestSearch ==
  /\ SearchesShown \subseteq {Len(submits)}
  /\ LatestDisplayed => resultsDiv = DisplayAll(<<>>, Len(submits))
  /\ loadingText = "none" => \A k \in 1..Len(submits) : ~Awaiting(k)

====
